---- MODULE Spec2Model ----
(***************************************************************************)
(* Model of src/proxy.py: the OpenAI <-> Ollama chat-completion proxy.     *)
(*                                                                         *)
(* Text is modelled by its length (a natural number) wherever the code     *)
(* only measures or slices it; JSON values are tagged records; Python      *)
(* dicts are TLA+ records whose DOMAIN is the set of keys present.         *)
(***************************************************************************)
EXTENDS Integers, Sequences, FiniteSets, TLC

VARIABLES
    endpoint,      \* "openai" (/v1/chat/completions) | "ollama" (/api/chat) | "none"
    stream,        \* data.get("stream", False)
    messages,      \* data.get("messages", []) as received / the truncator's argument
    max_chars,     \* the truncator's budget argument
    out_messages,  \* value returned by _truncate_messages (<<>> before the call)
    pc,            \* position of the handler / frame generator
    respStatus,    \* HTTP status committed to the caller, 0 = none yet
    sent,          \* sequence of message lists handed to the upstream client, one per call
    conn,          \* upstream connection: "none" | "open" | "released"
    upStatus,      \* status line of the upstream streaming response, 0 = none
    lines,         \* upstream lines / chunks read so far by the generator; for a
                   \* non-streaming call, the one body returned by res.json()
    frames,        \* downstream frames yielded so far
    exc,           \* the exception caught or raised: [type, len]
    response,      \* body returned by a non-streaming handler
    data,          \* the other fields of the inbound body: tools, tool_choice, options
    openai_data,   \* the upstream request built from it (its messages are out_messages)
    reqs           \* the generators of two concurrent /api/chat streaming requests

vars == <<endpoint, stream, messages, max_chars, out_messages, pc, respStatus,
          sent, conn, upStatus, lines, frames, exc, response, data, openai_data, reqs>>

(***************************************************************************)
(* Bounds of the model.                                                    *)
(***************************************************************************)
MaxLines == 3   \* upstream lines read per streaming request
MaxMsgs == 3    \* messages per list given to the truncator

(***************************************************************************)
(* Program constants.                                                      *)
(***************************************************************************)
DefaultMaxChars == 20000   \* max_chars default of _truncate_messages
ErrCap == 1000             \* clip length of the exception text
MarkerLen == 14            \* len("...[truncated]")
PrefixLen == 18            \* len("Streaming failed: ")
NoMessageLen == 12         \* len("<no message>")

Min(a, b) == IF a <= b THEN a ELSE b

Last(s) == s[Len(s)]

RECURSIVE SumSeq(_)
SumSeq(s) == IF s = <<>> THEN 0 ELSE s[1] + SumSeq(Tail(s))

(***************************************************************************)
(* Chat messages.  kind = "dict" is a structured message, kind = "str" a   *)
(* plain string entry.  clen = len(m.get("content") or ""), jlen =         *)
(* len(json.dumps(m)) for a dict and len(m) for a string.                  *)
(***************************************************************************)
Msg(kind, role, clen, jlen, tools) ==
    [kind |-> kind, role |-> role, clen |-> clen, jlen |-> jlen, tool_calls |-> tools]

MsgEmpty == Msg("dict", "user", 0, 33, FALSE)            \* content ""
MsgToolOnly == Msg("dict", "assistant", 0, 30000, TRUE)  \* content null, large tool_calls
MsgA == Msg("dict", "user", 8000, 8033, FALSE)
MsgB == Msg("dict", "assistant", 15000, 15038, FALSE)
MsgC == Msg("dict", "user", 25000, 25033, FALSE)
MsgStr == Msg("str", "", 0, 12, FALSE)
MsgStrBig == Msg("str", "", 0, 30000, FALSE)

MsgPool == {MsgEmpty, MsgToolOnly, MsgA, MsgB, MsgC, MsgStr, MsgStrBig}

\* len((m.get("content") or "")) for a dict, nothing for any other entry
ContentLen(m) == IF m.kind = "dict" THEN m.clen ELSE 0

\* sum(len((m.get("content") or "")) for m in msgs if isinstance(m, dict))
TotalContent(msgs) == SumSeq([i \in 1..Len(msgs) |-> ContentLen(msgs[i])])

\* len("".join([m if isinstance(m, str) else json.dumps(m) for m in msgs]))
JoinedLen(msgs) == SumSeq([i \in 1..Len(msgs) |-> msgs[i].jlen])

\* len(s[-k:]) for a string of length n: s[-0:] is the whole string
TailSliceLen(n, k) == IF k = 0 THEN n ELSE Min(n, k)

\* {"role": "system", "content": truncated}
SyntheticMsg(clen) == Msg("dict", "system", clen, clen + 35, FALSE)

\* while msgs and total > max_chars: removed = msgs.pop(0); total -= len(...)
RECURSIVE DropOldest(_, _, _)
\* faulty variant: msgs.pop() drops the newest message instead of the oldest
DropOldestBug(msgs, total, budget) ==
    IF msgs # <<>> /\ total > budget
    THEN DropOldest(SubSeq(msgs, 1, Len(msgs) - 1), total - ContentLen(Last(msgs)), budget)
    ELSE msgs
DropOldest(msgs, total, budget) ==
    IF msgs # <<>> /\ total > budget
    THEN DropOldest(Tail(msgs), total - ContentLen(msgs[1]), budget)
    ELSE msgs

_truncate_messages(msgs, budget) ==
    IF msgs = <<>> THEN msgs
    ELSE LET total == TotalContent(msgs) IN
         IF total = 0
         THEN IF JoinedLen(msgs) <= budget
              THEN msgs
              ELSE <<SyntheticMsg(TailSliceLen(JoinedLen(msgs), budget))>>
         ELSE DropOldest(msgs, total, budget)

(***************************************************************************)
(* JSON values as produced by json.loads.                                  *)
(***************************************************************************)
JNull == [t |-> "null"]
JNum == [t |-> "number"]
JStr(s) == [t |-> "string", s |-> s]
JArr(items) == [t |-> "array", items |-> items]
JObj(fields) == [t |-> "object", f |-> fields]

\* Python `key in v`: key lookup on a dict, element test on a list, substring
\* test on a str (none of the modelled strings/lists contains a key name),
\* TypeError on None and on numbers.
PyIn(key, v) ==
    CASE v.t = "object" -> IF key \in DOMAIN v.f THEN "True" ELSE "False"
      [] v.t = "array" -> "False"
      [] v.t = "string" -> "False"
      [] OTHER -> "TypeError"

\* Python len(v): -1 stands for TypeError
PyLen(v) ==
    CASE v.t = "array" -> Len(v.items)
      [] v.t = "object" -> Cardinality(DOMAIN v.f)
      [] OTHER -> -1

(***************************************************************************)
(* Upstream lines.  A line is a keep-alive (no "data: " prefix), the       *)
(* sentinel "data: [DONE]", or "data: <body>" where json.loads(body)       *)
(* either raises JSONDecodeError or returns a JSON value.                  *)
(***************************************************************************)
KeepAlive == [prefix |-> FALSE, body |-> "", json |-> JNull]
Sentinel == [prefix |-> TRUE, body |-> "[DONE]", json |-> JNull]
NotJson == [prefix |-> TRUE, body |-> "garbage", json |-> JNull]
DataLine(v) == [prefix |-> TRUE, body |-> "json", json |-> v]

ToolCalls == JArr(<<JObj([id |-> JStr("call_1")])>>)
Delta(d) == JObj([choices |-> JArr(<<JObj([delta |-> d])>>)])

EvHello == DataLine(Delta(JObj([content |-> JStr("Hello")])))
EvWorld == DataLine(Delta(JObj([content |-> JStr(" world")])))
EvTool == DataLine(Delta(JObj([tool_calls |-> ToolCalls])))
EvBoth == DataLine(Delta(JObj([content |-> JStr("Hello"), tool_calls |-> ToolCalls])))
EvRoleOnly == DataLine(Delta(JObj([role |-> JStr("assistant")])))
EvNoDelta == DataLine(JObj([choices |-> JArr(<<JObj([finish_reason |-> JStr("stop")])>>)]))
EvNoChoices == DataLine(JObj([choices |-> JArr(<<>>)]))
EvNullChoice == DataLine(JObj([choices |-> JArr(<<JNull>>)]))
EvNullDelta == DataLine(Delta(JNull))
EvNumber == DataLine(JNum)
EvNull == DataLine(JNull)

\* events that are JSON objects of the expected shape
WellFormed == {EvHello, EvWorld, EvTool, EvBoth, EvRoleOnly, EvNoDelta, EvNoChoices}
\* bodies that are not JSON, or JSON that is not an object of the expected shape
Malformed == {NotJson, EvNumber, EvNull, EvNullChoice, EvNullDelta}
LinePool == WellFormed \cup Malformed \cup {KeepAlive, Sentinel}

(***************************************************************************)
(* Downstream frames of the /api/chat stream.                              *)
(***************************************************************************)
ModelName == "m"
Now == "ts"

\* {"model": data.get("model"), "done": True}
DoneFrame == [model |-> ModelName, done |-> TRUE]

\* {"model": ..., "created_at": ..., "done": False}
BaseChunk == [model |-> ModelName, created_at |-> Now, done |-> FALSE]

WithMessage(chunk, m) == chunk @@ [message |-> m]

\* the try body of the generator for one "data: " line that is not the sentinel:
\* [kind |-> "skip"] on JSONDecodeError, [kind |-> "raise"] on any other
\* exception, [kind |-> "frame", frame |-> ollama_chunk] otherwise
RaiseTypeError == [kind |-> "raise", frame |-> BaseChunk]
Yield(chunk) == [kind |-> "frame", frame |-> chunk]

\* faulty variant: `elif "tool_calls" in delta`, the text wins over the tool calls
TranslateDeltaContentFirst(delta) ==
    LET hasContent == PyIn("content", delta)
        hasTools == PyIn("tool_calls", delta)
    IN IF hasContent = "TypeError" THEN RaiseTypeError
       ELSE IF hasContent = "True"
       THEN Yield(WithMessage(BaseChunk,
                      [role |-> "assistant", content |-> delta.f["content"]]))
       ELSE IF hasTools = "True"
       THEN Yield(WithMessage(BaseChunk,
                      [role |-> "assistant", content |-> JStr(""),
                       tool_calls |-> delta.f["tool_calls"]]))
       ELSE Yield(BaseChunk)
TranslateDelta(delta) ==
    LET hasContent == PyIn("content", delta)
        hasTools == PyIn("tool_calls", delta)
    IN IF hasContent = "TypeError" THEN RaiseTypeError
       ELSE LET c1 == IF hasContent = "True"
                      THEN WithMessage(BaseChunk,
                               [role |-> "assistant", content |-> delta.f["content"]])
                      ELSE BaseChunk
            IN IF hasTools = "True"
               THEN Yield([model |-> c1.model, created_at |-> c1.created_at, done |-> c1.done,
                           message |-> [role |-> "assistant", content |-> JStr(""),
                                        tool_calls |-> delta.f["tool_calls"]]])
               ELSE Yield(c1)

TranslateChunk(line) ==
    IF line.body # "json" THEN [kind |-> "skip", frame |-> BaseChunk]
    ELSE LET v == line.json
             hasChoices == PyIn("choices", v)
         IN IF hasChoices = "TypeError" THEN RaiseTypeError
            ELSE IF hasChoices = "False" THEN Yield(BaseChunk)
            ELSE LET choices == v.f["choices"] IN
                 IF PyLen(choices) < 0 THEN RaiseTypeError
                 ELSE IF PyLen(choices) = 0 THEN Yield(BaseChunk)
                 ELSE LET choice == choices.items[1]
                          hasDelta == PyIn("delta", choice)
                      IN IF hasDelta = "TypeError" THEN RaiseTypeError
                         ELSE IF hasDelta = "False" THEN Yield(BaseChunk)
                         ELSE TranslateDelta(choice.f["delta"])

(***************************************************************************)
(* The except clause of the /api/chat generator.                           *)
(***************************************************************************)
Exc(type, len) == [type |-> type, len |-> len]
NoExc == Exc("none", 0)

\* exc_text = str(e) or "<no message>"; clipped to 1000 characters + marker.
\* The text is kept as (characters taken from str(e), length of the marker).
\* faulty variant: the exception text is not clipped
ExcTextUnclipped(e) ==
    [desc |-> IF e.len = 0 THEN NoMessageLen ELSE e.len, marker |-> 0]
ExcText(e) ==
    LET n == IF e.len = 0 THEN NoMessageLen ELSE e.len
    IN IF n > ErrCap THEN [desc |-> ErrCap, marker |-> MarkerLen]
       ELSE [desc |-> n, marker |-> 0]

\* f"Streaming failed: {exc_text}"
ErrorField(e) == [prefix |-> PrefixLen] @@ ExcText(e)
ErrorLen(err) == err.prefix + err.desc + err.marker

ErrorFrame(e) ==
    [model |-> ModelName, created_at |-> Now, done |-> TRUE, error |-> ErrorField(e)]

\* what the generator does with one line read from response.aiter_lines()
\* faulty variant: the `break` after the sentinel's frame is missing
ProcessLineNoBreak(line) ==
    IF ~line.prefix THEN [kind |-> "ignore", frame |-> BaseChunk]
    ELSE IF line.body = "[DONE]" THEN [kind |-> "frame", frame |-> DoneFrame]
    ELSE TranslateChunk(line)
ProcessLine(line) ==
    IF ~line.prefix THEN [kind |-> "ignore", frame |-> BaseChunk]
    ELSE IF line.body = "[DONE]" THEN [kind |-> "done", frame |-> DoneFrame]
    ELSE TranslateChunk(line)

\* `except Exception` catches the subclasses of Exception only; CancelledError
\* and GeneratorExit derive from BaseException
\* faulty variant: a bare `except:` catches everything
HandlerCatchesAll(cls) == TRUE
HandlerCatches(cls) == cls = "Exception"

\* except Exception as e: ... yield error_response (the generator then returns)
\* faulty variant: the exception is re-raised instead of framed
OllamaExceptBug(fr, e) == [frames |-> fr, pc |-> "raised"]
OllamaExcept(fr, e) == [frames |-> Append(fr, ErrorFrame(e)), pc |-> "finished"]

\* the except clause of the /v1/chat/completions generator: the text is not clipped
OpenaiErrorFrame(e) ==
    [error |-> [type |-> "stream_error", prefix |-> PrefixLen, desc |-> e.len, marker |-> 0]]
OpenaiExcept(fr, e) == [frames |-> Append(fr, OpenaiErrorFrame(e)), pc |-> "finished"]

(***************************************************************************)
(* Non-streaming translation of a complete upstream response.              *)
(***************************************************************************)
RespPlain == JObj([choices |-> JArr(<<JObj([message |->
                 JObj([role |-> JStr("assistant"), content |-> JStr("Hi")])])>>)])
RespNoRole == JObj([choices |-> JArr(<<JObj([message |->
                 JObj([content |-> JStr("Hi")])])>>)])
RespTools == JObj([choices |-> JArr(<<JObj([message |->
                 JObj([role |-> JStr("assistant"), content |-> JNull,
                       tool_calls |-> ToolCalls])])>>)])
RespRoleOnly == JObj([choices |-> JArr(<<JObj([message |->
                 JObj([role |-> JStr("tool")])])>>)])
RespNoMessage == JObj([choices |-> JArr(<<JObj([finish_reason |-> JStr("stop")])>>)])
RespEmptyChoices == JObj([choices |-> JArr(<<>>)])
RespNoChoices == JObj([id |-> JStr("x")])
ResponsePool == {RespPlain, RespNoRole, RespTools, RespRoleOnly, RespNoMessage,
                 RespEmptyChoices, RespNoChoices}

NoResponse == [kind |-> "none"]

\* message.get(key, default) on a dict
PyGet(obj, key, default) == IF key \in DOMAIN obj.f THEN obj.f[key] ELSE default

DefaultMessage == [role |-> JStr("assistant"), content |-> JStr("")]

\* faulty variant: no default message, the message is set only from a choice
TranslateResponseNoDefault(r) ==
    LET base == [model |-> ModelName, created_at |-> Now, done |-> TRUE]
        hasMsg == /\ PyIn("choices", r) = "True" /\ PyLen(r.f["choices"]) > 0
                  /\ PyIn("message", r.f["choices"].items[1]) = "True"
        message == r.f["choices"].items[1].f["message"]
        m == [role |-> PyGet(message, "role", JStr("assistant")),
              content |-> PyGet(message, "content", JStr(""))]
    IN IF hasMsg
       THEN [kind |-> "ollama"] @@ base @@
            [message |-> IF PyIn("tool_calls", message) = "True"
                         THEN m @@ [tool_calls |-> message.f["tool_calls"]]
                         ELSE m]
       ELSE [kind |-> "ollama"] @@ base
TranslateResponse(r) ==
    LET base == [model |-> ModelName, created_at |-> Now, done |-> TRUE]
        msg ==
          IF PyIn("choices", r) = "True" /\ PyLen(r.f["choices"]) > 0
          THEN LET choice == r.f["choices"].items[1] IN
               IF PyIn("message", choice) = "True"
               THEN LET message == choice.f["message"]
                        m == [role |-> PyGet(message, "role", JStr("assistant")),
                              content |-> PyGet(message, "content", JStr(""))]
                    IN IF PyIn("tool_calls", message) = "True"
                       THEN m @@ [tool_calls |-> message.f["tool_calls"]]
                       ELSE m
               ELSE DefaultMessage
          ELSE DefaultMessage
    IN [kind |-> "ollama"] @@ base @@ [message |-> msg]

(***************************************************************************)
(* Translation of an /api/chat body into the upstream request.             *)
(***************************************************************************)
DefaultMaxTokens == 2048
DefaultTemperature == "0.7"

NoFields == [k \in {} |-> 0]
Restrict(rec, keys) == [k \in keys \cap DOMAIN rec |-> rec[k]]

\* d.get(key, default) on a dict held as a record
DictGet(d, key, default) == IF key \in DOMAIN d THEN d[key] ELSE default

\* faulty variant: tool_choice is copied whether or not tools is present
ToOpenAIFlat(d, st) ==
    LET options == DictGet(d, "options", NoFields)
        base == [model |-> ModelName, stream |-> st,
                 max_tokens |-> DictGet(options, "max_tokens", DefaultMaxTokens),
                 temperature |-> DictGet(options, "temperature", DefaultTemperature)]
    IN base @@ Restrict(d, {"tools", "tool_choice"})
\* openai_data = {...}; if "tools" in data: ...; if "tool_choice" in data: ...
ToOpenAI(d, st) ==
    LET options == DictGet(d, "options", NoFields)
        base == [model |-> ModelName, stream |-> st,
                 max_tokens |-> DictGet(options, "max_tokens", DefaultMaxTokens),
                 temperature |-> DictGet(options, "temperature", DefaultTemperature)]
    IN IF "tools" \in DOMAIN d
       THEN IF "tool_choice" \in DOMAIN d
            THEN base @@ [tools |-> d["tools"], tool_choice |-> d["tool_choice"]]
            ELSE base @@ [tools |-> d["tools"]]
       ELSE base

NoBody == [unbuilt |-> TRUE]

\* options mappings: each of max_tokens and temperature absent or one of two values
OptionsPool ==
    {Restrict([max_tokens |-> m, temperature |-> t], K) :
        m \in {256, 4096}, t \in {"0", "0.2"}, K \in SUBSET {"max_tokens", "temperature"}}

\* inbound bodies: every combination of tools, tool_choice and options present or absent
DataPool ==
    {Restrict([tools |-> "tools", tool_choice |-> c, options |-> o], K) :
        c \in {"auto", "none"}, o \in OptionsPool,
        K \in SUBSET {"tools", "tool_choice", "options"}}

BareData == NoFields
FullData == [tools |-> "tools", tool_choice |-> "auto",
             options |-> [max_tokens |-> 256, temperature |-> "0.2"]]

\* no concurrent generators
NoReqs == <<>>

(***************************************************************************)
(* Inputs.                                                                 *)
(***************************************************************************)
\* message lists of inbound requests: empty, within budget, over budget,
\* and a structured message without content
RequestMessages == {<<>>, <<MsgA>>, <<MsgA, MsgB>>, <<MsgToolOnly>>}

\* lengths of str(e) of a transport exception
ExcLens == {0, 30, 1000, 1001}

\* chunks of response.aiter_bytes()
ChunkPool == {"c1", "c2"}

\* outcomes of issuing the upstream call
Outcomes == {"ok", "http_error", "connect_error"}

RECURSIVE SeqsUpTo(_, _)
SeqsUpTo(S, n) ==
    IF n = 0 THEN {<<>>}
    ELSE LET shorter == SeqsUpTo(S, n - 1)
         IN shorter \cup {Append(q, x) : q \in {r \in shorter : Len(r) = n - 1}, x \in S}

Budgets == {10000, DefaultMaxChars}

(***************************************************************************)
(* Initial state: one inbound chat request.                                *)
(***************************************************************************)
Init ==
    /\ endpoint \in {"openai", "ollama"}
    /\ stream \in BOOLEAN
    /\ messages \in RequestMessages
    /\ max_chars = DefaultMaxChars
    /\ out_messages = <<>>
    /\ pc = "start"
    /\ respStatus = 0
    /\ sent = <<>>
    /\ conn = "none"
    /\ upStatus = 0
    /\ lines = <<>>
    /\ frames = <<>>
    /\ exc = NoExc
    /\ response = NoResponse
    /\ data \in {BareData, FullData}
    /\ openai_data = NoBody
    /\ reqs = NoReqs

(***************************************************************************)
(* POST /v1/chat/completions                                               *)
(***************************************************************************)
\* stream branch of the handler: the StreamingResponse is returned, the
\* success status is committed, the generator has not run yet
OpenaiReturnStream ==
    /\ pc = "start" /\ endpoint = "openai" /\ stream
    /\ openai_data' = data
    /\ respStatus' = 200
    /\ pc' = "gen_start"
    /\ UNCHANGED <<reqs, data, endpoint, stream, messages, max_chars, out_messages, sent,
                   conn, upStatus, lines, frames, exc, response>>

\* generator: truncate, open the client, issue the streaming POST
OpenaiStreamOpen ==
    /\ pc = "gen_start" /\ endpoint = "openai"
    /\ out_messages' = _truncate_messages(messages, max_chars)
    /\ sent' = Append(sent, out_messages')
    /\ \E outcome \in Outcomes :
         IF outcome = "connect_error"
         THEN \E n \in ExcLens :
                /\ exc' = Exc("connect", n)
                /\ frames' = OpenaiExcept(frames, exc').frames
                /\ pc' = OpenaiExcept(frames, exc').pc
                /\ UNCHANGED <<conn, upStatus>>
         ELSE /\ conn' = "open"
              /\ upStatus' = IF outcome = "ok" THEN 200 ELSE 500
              /\ pc' = "reading"
              /\ UNCHANGED <<frames, exc>>
    /\ UNCHANGED <<reqs, data, openai_data, endpoint, stream, messages, max_chars,
                   respStatus, lines, response>>

\* async for chunk in response.aiter_bytes(): yield chunk
OpenaiReadChunk ==
    /\ pc = "reading" /\ endpoint = "openai"
    /\ Len(lines) < MaxLines
    /\ \E c \in ChunkPool :
         /\ lines' = Append(lines, c)
         /\ frames' = Append(frames, [bytes |-> c])
    /\ UNCHANGED <<reqs, data, openai_data, endpoint, stream, messages, max_chars,
                   out_messages, pc, respStatus, sent, conn, upStatus, exc, response>>

\* the upstream body is exhausted: the loop ends
OpenaiUpstreamEnd ==
    /\ pc = "reading" /\ endpoint = "openai"
    /\ pc' = "closing"
    /\ UNCHANGED <<reqs, data, openai_data, endpoint, stream, messages, max_chars,
                   out_messages, respStatus, sent, conn, upStatus, lines, frames, exc,
                   response>>

\* leaving the two `async with` blocks: response.aclose(), client.aclose()
OpenaiClose ==
    /\ pc = "closing" /\ endpoint = "openai"
    /\ conn' = "released"
    /\ \E ok \in BOOLEAN :
         IF ok
         THEN pc' = "finished" /\ UNCHANGED <<frames, exc>>
         ELSE \E n \in ExcLens :
                /\ exc' = Exc("close", n)
                /\ frames' = OpenaiExcept(frames, exc').frames
                /\ pc' = OpenaiExcept(frames, exc').pc
    /\ UNCHANGED <<reqs, data, openai_data, endpoint, stream, messages, max_chars,
                   out_messages, respStatus, sent, upStatus, lines, response>>

\* a transport exception raised by the read
OpenaiReadFail ==
    /\ pc = "reading" /\ endpoint = "openai"
    /\ conn' = "released"
    /\ \E n \in ExcLens :
         /\ exc' = Exc("read", n)
         /\ frames' = OpenaiExcept(frames, exc').frames
         /\ pc' = OpenaiExcept(frames, exc').pc
    /\ UNCHANGED <<reqs, data, openai_data, endpoint, stream, messages, max_chars,
                   out_messages, respStatus, sent, upStatus, lines, response>>

\* the caller disconnects mid-stream.  Before the generator ran, it is simply
\* dropped.  While it awaits the upstream, CancelledError is raised at the
\* await: the `async with` blocks release the connection and `except
\* Exception` does not apply.  While it is suspended at a yield, it stays
\* suspended until it is finalized.
OpenaiDisconnect ==
    /\ endpoint = "openai" /\ pc \in {"gen_start", "reading", "closing"}
    /\ \E at \in {"await", "yield"} :
         IF pc = "gen_start"
         THEN pc' = "cancelled" /\ UNCHANGED <<conn, frames, exc>>
         ELSE IF at = "await"
         THEN /\ exc' = Exc("CancelledError", 0)
              /\ conn' = "released"
              /\ IF HandlerCatches("BaseException")
                 THEN /\ frames' = OpenaiExcept(frames, exc').frames
                      /\ pc' = OpenaiExcept(frames, exc').pc
                 ELSE pc' = "cancelled" /\ UNCHANGED frames
         ELSE /\ frames # <<>>
              /\ pc' = "abandoned"
              /\ UNCHANGED <<conn, frames, exc>>
    /\ UNCHANGED <<reqs, data, openai_data, endpoint, stream, messages, max_chars,
                   out_messages, respStatus, sent, upStatus, lines, response>>

\* the abandoned generator is finalized: aclose() raises GeneratorExit at the
\* yield, the `async with` blocks release the connection
OpenaiFinalize ==
    /\ endpoint = "openai" /\ pc = "abandoned"
    /\ exc' = Exc("GeneratorExit", 0)
    /\ conn' = "released"
    /\ IF HandlerCatches("BaseException")
       THEN /\ frames' = OpenaiExcept(frames, exc').frames
            /\ pc' = OpenaiExcept(frames, exc').pc
       ELSE pc' = "cancelled" /\ UNCHANGED frames
    /\ UNCHANGED <<reqs, data, openai_data, endpoint, stream, messages, max_chars,
                   out_messages, respStatus, sent, upStatus, lines, response>>

\* non-streaming branch: the body is posted as received
OpenaiNonStream ==
    /\ pc = "start" /\ endpoint = "openai" /\ ~stream
    /\ openai_data' = data
    /\ sent' = Append(sent, messages)
    /\ conn' = "released"
    /\ \E outcome \in Outcomes :
         IF outcome = "ok"
         THEN \E r \in ResponsePool :
                /\ lines' = <<r>>
                /\ response' = [kind |-> "openai", body |-> r]
                /\ respStatus' = 200
                /\ pc' = "returned"
                /\ UNCHANGED exc
         ELSE \E n \in ExcLens :
                /\ exc' = Exc(outcome, n)
                /\ respStatus' = 500
                /\ pc' = "raised"
                /\ UNCHANGED <<response, lines>>
    /\ UNCHANGED <<reqs, data, endpoint, stream, messages, max_chars, out_messages,
                   upStatus, frames>>

(***************************************************************************)
(* POST /api/chat                                                          *)
(***************************************************************************)
OllamaReturnStream ==
    /\ pc = "start" /\ endpoint = "ollama" /\ stream
    /\ openai_data' = ToOpenAI(data, stream)
    /\ respStatus' = 200
    /\ pc' = "gen_start"
    /\ UNCHANGED <<reqs, data, endpoint, stream, messages, max_chars, out_messages, sent,
                   conn, upStatus, lines, frames, exc, response>>

\* generator: open the client, truncate, issue the streaming POST
OllamaStreamOpen ==
    /\ pc = "gen_start" /\ endpoint = "ollama"
    /\ out_messages' = _truncate_messages(messages, max_chars)
    /\ sent' = Append(sent, out_messages')
    /\ \E outcome \in Outcomes :
         IF outcome = "connect_error"
         THEN \E n \in ExcLens :
                /\ exc' = Exc("connect", n)
                /\ frames' = OllamaExcept(frames, exc').frames
                /\ pc' = OllamaExcept(frames, exc').pc
                /\ UNCHANGED <<conn, upStatus>>
         ELSE /\ conn' = "open"
              /\ upStatus' = IF outcome = "ok" THEN 200 ELSE 500
              /\ pc' = "reading"
              /\ UNCHANGED <<frames, exc>>
    /\ UNCHANGED <<reqs, data, openai_data, endpoint, stream, messages, max_chars,
                   respStatus, lines, response>>

\* one iteration of `async for chunk in response.aiter_lines()`.  The body of
\* a non-2xx upstream answer is not an event stream: its lines carry no
\* "data: " prefix.
OllamaReadLine ==
    /\ pc = "reading" /\ endpoint = "ollama"
    /\ Len(lines) < MaxLines
    /\ \E line \in (IF upStatus = 200 THEN LinePool ELSE {KeepAlive}) :
         LET r == ProcessLine(line) IN
         /\ lines' = Append(lines, line)
         /\ CASE r.kind = "frame" ->
                   /\ frames' = Append(frames, r.frame)
                   /\ UNCHANGED <<pc, conn, exc>>
              [] r.kind = "done" ->
                   /\ frames' = Append(frames, r.frame)
                   /\ pc' = "closing"
                   /\ UNCHANGED <<conn, exc>>
              [] r.kind = "raise" ->
                   /\ exc' = Exc("TypeError", 38)
                   /\ conn' = "released"
                   /\ frames' = OllamaExcept(frames, exc').frames
                   /\ pc' = OllamaExcept(frames, exc').pc
              [] OTHER -> UNCHANGED <<frames, pc, conn, exc>>
    /\ UNCHANGED <<reqs, data, openai_data, endpoint, stream, messages, max_chars,
                   out_messages, respStatus, sent, upStatus, response>>

\* the upstream closes the stream: the loop ends without a sentinel
OllamaUpstreamEnd ==
    /\ pc = "reading" /\ endpoint = "ollama"
    /\ pc' = "closing"
    /\ UNCHANGED <<reqs, data, openai_data, endpoint, stream, messages, max_chars,
                   out_messages, respStatus, sent, conn, upStatus, lines, frames, exc,
                   response>>

\* leaving the two `async with` blocks after the loop ended or after `break`
OllamaClose ==
    /\ pc = "closing" /\ endpoint = "ollama"
    /\ conn' = "released"
    /\ \E ok \in BOOLEAN :
         IF ok
         THEN pc' = "finished" /\ UNCHANGED <<frames, exc>>
         ELSE \E n \in ExcLens :
                /\ exc' = Exc("close", n)
                /\ frames' = OllamaExcept(frames, exc').frames
                /\ pc' = OllamaExcept(frames, exc').pc
    /\ UNCHANGED <<reqs, data, openai_data, endpoint, stream, messages, max_chars,
                   out_messages, respStatus, sent, upStatus, lines, response>>

\* a transport exception raised by the read while the loop is running
OllamaReadFail ==
    /\ pc = "reading" /\ endpoint = "ollama"
    /\ conn' = "released"
    /\ \E n \in ExcLens :
         /\ exc' = Exc("read", n)
         /\ frames' = OllamaExcept(frames, exc').frames
         /\ pc' = OllamaExcept(frames, exc').pc
    /\ UNCHANGED <<reqs, data, openai_data, endpoint, stream, messages, max_chars,
                   out_messages, respStatus, sent, upStatus, lines, response>>

\* the caller disconnects mid-stream.  Before the generator ran, it is simply
\* dropped.  While it awaits the upstream, CancelledError is raised at the
\* await: the `async with` blocks release the connection and `except
\* Exception` does not apply.  While it is suspended at a yield, it stays
\* suspended until it is finalized.
OllamaDisconnect ==
    /\ endpoint = "ollama" /\ pc \in {"gen_start", "reading", "closing"}
    /\ \E at \in {"await", "yield"} :
         IF pc = "gen_start"
         THEN pc' = "cancelled" /\ UNCHANGED <<conn, frames, exc>>
         ELSE IF at = "await"
         THEN /\ exc' = Exc("CancelledError", 0)
              /\ conn' = "released"
              /\ IF HandlerCatches("BaseException")
                 THEN /\ frames' = OllamaExcept(frames, exc').frames
                      /\ pc' = OllamaExcept(frames, exc').pc
                 ELSE pc' = "cancelled" /\ UNCHANGED frames
         ELSE /\ frames # <<>>
              /\ pc' = "abandoned"
              /\ UNCHANGED <<conn, frames, exc>>
    /\ UNCHANGED <<reqs, data, openai_data, endpoint, stream, messages, max_chars,
                   out_messages, respStatus, sent, upStatus, lines, response>>

\* the abandoned generator is finalized: aclose() raises GeneratorExit at the
\* yield, the `async with` blocks release the connection
OllamaFinalize ==
    /\ endpoint = "ollama" /\ pc = "abandoned"
    /\ exc' = Exc("GeneratorExit", 0)
    /\ conn' = "released"
    /\ IF HandlerCatches("BaseException")
       THEN /\ frames' = OllamaExcept(frames, exc').frames
            /\ pc' = OllamaExcept(frames, exc').pc
       ELSE pc' = "cancelled" /\ UNCHANGED frames
    /\ UNCHANGED <<reqs, data, openai_data, endpoint, stream, messages, max_chars,
                   out_messages, respStatus, sent, upStatus, lines, response>>

\* non-streaming branch: truncate, post, raise_for_status, translate
OllamaNonStream ==
    /\ pc = "start" /\ endpoint = "ollama" /\ ~stream
    /\ openai_data' = ToOpenAI(data, stream)
    /\ out_messages' = _truncate_messages(messages, max_chars)
    /\ sent' = Append(sent, out_messages')
    /\ conn' = "released"
    /\ \E outcome \in Outcomes :
         IF outcome = "ok"
         THEN \E r \in ResponsePool :
                /\ lines' = <<r>>
                /\ response' = TranslateResponse(r)
                /\ respStatus' = 200
                /\ pc' = "returned"
                /\ UNCHANGED exc
         ELSE \E n \in ExcLens :
                /\ exc' = Exc(outcome, n)
                /\ respStatus' = 500
                /\ pc' = "raised"
                /\ UNCHANGED <<response, lines>>
    /\ UNCHANGED <<reqs, data, endpoint, stream, messages, max_chars, upStatus, frames>>

Next ==
    \/ OpenaiReturnStream
    \/ OpenaiStreamOpen
    \/ OpenaiReadChunk
    \/ OpenaiUpstreamEnd
    \/ OpenaiClose
    \/ OpenaiReadFail
    \/ OpenaiDisconnect
    \/ OpenaiFinalize
    \/ OpenaiNonStream
    \/ OllamaReturnStream
    \/ OllamaStreamOpen
    \/ OllamaReadLine
    \/ OllamaUpstreamEnd
    \/ OllamaClose
    \/ OllamaReadFail
    \/ OllamaDisconnect
    \/ OllamaFinalize
    \/ OllamaNonStream

Spec == Init /\ [][Next]_vars

\* the event loop runs every ready task and finalizer, and every upstream read
\* returns a line, ends, or fails within the streaming timeout
FairSpec == Init /\ [][Next]_vars /\ WF_vars(Next)

(***************************************************************************)
(* The truncator on its own: every list of up to MaxMsgs entries of the    *)
(* pool, under each budget.                                                *)
(***************************************************************************)
TruncInit ==
    /\ endpoint = "none"
    /\ stream = FALSE
    /\ messages \in SeqsUpTo(MsgPool, MaxMsgs)
    /\ max_chars \in Budgets
    /\ out_messages = <<>>
    /\ pc = "call"
    /\ respStatus = 0
    /\ sent = <<>>
    /\ conn = "none"
    /\ upStatus = 0
    /\ lines = <<>>
    /\ frames = <<>>
    /\ exc = NoExc
    /\ response = NoResponse
    /\ data = BareData
    /\ openai_data = NoBody
    /\ reqs = NoReqs

TruncCall ==
    /\ pc = "call" /\ endpoint = "none"
    /\ out_messages' = _truncate_messages(messages, max_chars)
    /\ pc' = "returned"
    /\ UNCHANGED <<reqs, data, openai_data, endpoint, stream, messages, max_chars,
                   respStatus, sent, conn, upStatus, lines, frames, exc, response>>

TruncNext == TruncCall

TruncSpec == TruncInit /\ [][TruncNext]_vars

(***************************************************************************)
(* The request translation on its own: every body of the pool.             *)
(***************************************************************************)
ReqInit ==
    /\ endpoint = "ollama"
    /\ stream \in BOOLEAN
    /\ messages = <<>>
    /\ max_chars = DefaultMaxChars
    /\ out_messages = <<>>
    /\ pc = "translate"
    /\ respStatus = 0
    /\ sent = <<>>
    /\ conn = "none"
    /\ upStatus = 0
    /\ lines = <<>>
    /\ frames = <<>>
    /\ exc = NoExc
    /\ response = NoResponse
    /\ data \in DataPool
    /\ openai_data = NoBody
    /\ reqs = NoReqs

ReqTranslate ==
    /\ pc = "translate"
    /\ openai_data' = ToOpenAI(data, stream)
    /\ pc' = "translated"
    /\ UNCHANGED <<reqs, data, endpoint, stream, messages, max_chars, out_messages,
                   respStatus, sent, conn, upStatus, lines, frames, exc, response>>

ReqNext == ReqTranslate

ReqSpec == ReqInit /\ [][ReqNext]_vars

(***************************************************************************)
(* Two /api/chat streaming requests in flight at once.  Each call of the   *)
(* handler has its own locals (data, openai_data), its own generator and   *)
(* its own client; the event loop interleaves the generators' steps in any *)
(* order.  reqs[r] holds the state of request r.                           *)
(***************************************************************************)
MaxConcLines == 2
Requests == 1..2
ConcMessages == {<<MsgA>>, <<MsgA, MsgB>>}
ConcLinePool == {EvHello, EvWorld, EvNull, KeepAlive, Sentinel}
ConcExcLen == 30

NewRequest(msgs) ==
    [messages |-> msgs, sent |-> <<>>, pc |-> "gen_start", conn |-> "none",
     lines |-> <<>>, frames |-> <<>>, exc |-> NoExc]

\* a generator's yield goes to the StreamingResponse of its own request
\* faulty variant: the frames are kept in one buffer shared by all requests
EmitShared(rs, r, fr) == [i \in DOMAIN rs |-> [rs[i] EXCEPT !.frames = fr]]
Emit(rs, r, fr) == [rs EXCEPT ![r].frames = fr]

ConcInit ==
    /\ endpoint = "ollama"
    /\ stream = TRUE
    /\ messages = <<>>
    /\ max_chars = DefaultMaxChars
    /\ out_messages = <<>>
    /\ pc = "concurrent"
    /\ respStatus = 200
    /\ sent = <<>>
    /\ conn = "none"
    /\ upStatus = 0
    /\ lines = <<>>
    /\ frames = <<>>
    /\ exc = NoExc
    /\ response = NoResponse
    /\ data = BareData
    /\ openai_data = NoBody
    /\ reqs \in {[r \in Requests |-> NewRequest(m[r])] : m \in [Requests -> ConcMessages]}

ConcIdle ==
    UNCHANGED <<data, openai_data, endpoint, stream, messages, max_chars, out_messages,
                pc, respStatus, sent, conn, upStatus, lines, frames, exc, response>>

\* the except clause of request r's generator
ConcExcept(r, e, c) ==
    Emit([reqs EXCEPT ![r].exc = e, ![r].conn = c,
                      ![r].pc = OllamaExcept(reqs[r].frames, e).pc],
         r, OllamaExcept(reqs[r].frames, e).frames)

ConcStreamOpen(r) ==
    /\ reqs[r].pc = "gen_start"
    /\ LET out == _truncate_messages(reqs[r].messages, max_chars)
           started == [reqs EXCEPT ![r].sent = Append(@, out)]
       IN \E outcome \in {"ok", "connect_error"} :
            IF outcome = "connect_error"
            THEN reqs' = Emit([started EXCEPT ![r].exc = Exc("connect", ConcExcLen),
                                              ![r].pc = OllamaExcept(reqs[r].frames, Exc("connect", ConcExcLen)).pc],
                              r, OllamaExcept(reqs[r].frames, Exc("connect", ConcExcLen)).frames)
            ELSE reqs' = [started EXCEPT ![r].conn = "open", ![r].pc = "reading"]
    /\ ConcIdle

ConcReadLine(r) ==
    /\ reqs[r].pc = "reading"
    /\ Len(reqs[r].lines) < MaxConcLines
    /\ \E line \in ConcLinePool :
         LET res == ProcessLine(line)
             read == [reqs EXCEPT ![r].lines = Append(@, line)]
         IN CASE res.kind = "frame" ->
                   reqs' = Emit(read, r, Append(reqs[r].frames, res.frame))
              [] res.kind = "done" ->
                   reqs' = Emit([read EXCEPT ![r].pc = "closing"], r,
                                Append(reqs[r].frames, res.frame))
              [] res.kind = "raise" ->
                   reqs' = Emit([read EXCEPT ![r].exc = Exc("TypeError", 38),
                                             ![r].conn = "released",
                                             ![r].pc = OllamaExcept(reqs[r].frames, Exc("TypeError", 38)).pc],
                                r, OllamaExcept(reqs[r].frames, Exc("TypeError", 38)).frames)
              [] OTHER -> reqs' = read
    /\ ConcIdle

ConcUpstreamEnd(r) ==
    /\ reqs[r].pc = "reading"
    /\ reqs' = [reqs EXCEPT ![r].pc = "closing"]
    /\ ConcIdle

ConcClose(r) ==
    /\ reqs[r].pc = "closing"
    /\ \E ok \in BOOLEAN :
         IF ok
         THEN reqs' = [reqs EXCEPT ![r].conn = "released", ![r].pc = "finished"]
         ELSE reqs' = ConcExcept(r, Exc("close", ConcExcLen), "released")
    /\ ConcIdle

ConcReadFail(r) ==
    /\ reqs[r].pc = "reading"
    /\ reqs' = ConcExcept(r, Exc("read", ConcExcLen), "released")
    /\ ConcIdle

ConcNext ==
    \E r \in Requests :
        \/ ConcStreamOpen(r)
        \/ ConcReadLine(r)
        \/ ConcUpstreamEnd(r)
        \/ ConcClose(r)
        \/ ConcReadFail(r)

ConcSpec == ConcInit /\ [][ConcNext]_vars

(***************************************************************************)
(* Properties.                                                             *)
(***************************************************************************)
IsOllamaStream == endpoint = "ollama" /\ stream

ErrorFrames == {i \in 1..Len(frames) : "error" \in DOMAIN frames[i]}
DoneFrames == {i \in 1..Len(frames) : frames[i].done}

\* the frames the lines read so far give rise to, in order
RECURSIVE FramesOf(_)
FramesOf(ls) ==
    IF ls = <<>> THEN <<>>
    ELSE LET r == ProcessLine(ls[1]) IN
         IF r.kind \in {"frame", "done"} THEN <<r.frame>> \o FramesOf(Tail(ls))
         ELSE FramesOf(Tail(ls))

\* C1: when an /api/chat stream has ended, whatever the upstream did (sentinel,
\* transport failure, or closing without a sentinel), at least one frame was
\* emitted and the last emitted frame has done = true.
C1_LastFrameDone ==
    (IsOllamaStream /\ pc = "finished") => (frames # <<>> /\ Last(frames).done)

\* C2: a transport failure raised while the /api/chat generator is reading
\* yields exactly one frame with a non-empty error, that frame has done = true
\* and is the last one, it follows the frames of every line read before the
\* failure, and the generator ends without raising.
C2_TransportFailureFrame ==
    (IsOllamaStream /\ exc.type = "read") =>
        /\ pc = "finished"
        /\ frames # <<>>
        /\ ErrorFrames = {Len(frames)}
        /\ ErrorLen(Last(frames).error) > 0
        /\ Last(frames).done
        /\ SubSeq(frames, 1, Len(frames) - 1) = FramesOf(lines)

C2_Witness ==
    /\ IsOllamaStream /\ exc.type = "read"
    /\ Len(lines) = 3 /\ Len(frames) = 3
    /\ "error" \in DOMAIN frames[3]

\* C3 (as claimed): the error field of every error frame of an /api/chat
\* stream is at most 1000 characters long.
C3_ErrorWithinCap ==
    IsOllamaStream => \A i \in ErrorFrames : ErrorLen(frames[i].error) <= ErrCap

\* C3 (amended): the error field is the 18-character prefix, then at most the
\* first 1000 characters of the failure description, then the 14-character
\* marker exactly when the description was clipped; at most 1032 characters.
C3_ErrorFieldShape ==
    IsOllamaStream => \A i \in ErrorFrames :
        LET err == frames[i].error IN
        /\ err.prefix = PrefixLen
        /\ err.desc <= ErrCap
        /\ err.desc = IF exc.len = 0 THEN NoMessageLen ELSE Min(exc.len, ErrCap)
        /\ err.marker = IF exc.len > ErrCap THEN MarkerLen ELSE 0
        /\ ErrorLen(err) <= PrefixLen + ErrCap + MarkerLen

C3_Witness ==
    /\ IsOllamaStream /\ exc.len > ErrCap
    /\ ErrorFrames # {}
    /\ ErrorLen(Last(frames).error) = PrefixLen + ErrCap + MarkerLen

\* C4: reading a malformed event (not JSON, or JSON that is not an object of
\* the expected shape) emits no frame and leaves the generator reading.
C4_MalformedSkipped ==
    [][(IsOllamaStream /\ lines' # lines /\ Last(lines') \in Malformed)
          => (frames' = frames /\ pc' = "reading")]_vars

\* C5: when the upstream call of a streaming /api/chat request fails before any
\* frame was emitted (connection failure or non-2xx answer), the caller gets a
\* failing status and no frame carries an error.
C5_PreStreamFailureStatus ==
    (IsOllamaStream /\ (exc.type = "connect" \/ upStatus >= 400)) =>
        (respStatus >= 400 /\ ErrorFrames = {})

\* C6: every message list handed to the upstream client, on every entry point,
\* has total content length at most the truncation budget.
C6_SentWithinBudget ==
    \A i \in 1..Len(sent) : TotalContent(sent[i]) <= DefaultMaxChars

\* C7: for every message list whose total content length is at most the budget,
\* _truncate_messages returns the list unchanged.
C7_WithinBudgetIdentity ==
    (endpoint = "none" /\ pc = "returned" /\ TotalContent(messages) <= max_chars)
        => out_messages = messages

AllDict(msgs) == \A i \in 1..Len(msgs) : msgs[i].kind = "dict"

IsSuffix(out, in) ==
    /\ Len(out) <= Len(in)
    /\ out = SubSeq(in, Len(in) - Len(out) + 1, Len(in))

\* C8: for every list of structured messages whose total content length exceeds
\* the budget, the result is within the budget and is a trailing suffix of the
\* input (whole messages dropped from the front, kept messages unaltered).
C8_OverBudgetSuffix ==
    (endpoint = "none" /\ pc = "returned" /\ AllDict(messages)
       /\ TotalContent(messages) > max_chars)
        => (TotalContent(out_messages) <= max_chars /\ IsSuffix(out_messages, messages))

C8_Witness ==
    /\ endpoint = "none" /\ pc = "returned" /\ AllDict(messages)
    /\ TotalContent(messages) > max_chars
    /\ Len(messages) = 3 /\ Len(out_messages) = 2

Parsed(l) == l.prefix /\ l.body = "json"

\* content / tool_calls of the first choice's delta of a parsed event
EventDelta(l) ==
    IF PyIn("choices", l.json) = "True" /\ PyLen(l.json.f["choices"]) > 0
       /\ PyIn("delta", l.json.f["choices"].items[1]) = "True"
    THEN l.json.f["choices"].items[1].f["delta"]
    ELSE JObj([none |-> JNull])

\* the frame carries its own event's text, or "" next to its tool_calls
OwnIncrement(f, l) ==
    LET d == EventDelta(l) IN
    /\ ~f.done
    /\ "message" \in DOMAIN f <=> (PyIn("content", d) = "True" \/ PyIn("tool_calls", d) = "True")
    /\ "message" \in DOMAIN f =>
          f.message.content = IF PyIn("tool_calls", d) = "True" THEN JStr("")
                              ELSE d.f["content"]

\* C9: in an /api/chat stream without failure, the frames with done = false
\* are, in order, one per parsed event read, each with its own event's
\* increment; the sentinel, once read, adds exactly one done = true frame
\* without message, after all of them.
C9_FramesFollowEvents ==
    (IsOllamaStream /\ exc.type = "none") =>
        LET evs == SelectSeq(lines, Parsed)
            n == Len(evs)
        IN /\ Len(frames) = n + (IF \E i \in 1..Len(lines) : lines[i] = Sentinel THEN 1 ELSE 0)
           /\ \A i \in 1..n : OwnIncrement(frames[i], evs[i])
           /\ \A i \in (n + 1)..Len(frames) :
                 frames[i].done /\ "message" \notin DOMAIN frames[i]

C9_Witness ==
    /\ IsOllamaStream /\ exc.type = "none" /\ pc = "finished"
    /\ lines = <<EvHello, EvWorld, Sentinel>>
    /\ Len(frames) = 3
    /\ frames[1].message.content = JStr("Hello")
    /\ frames[2].message.content = JStr(" world")
    /\ frames[3].done

\* C10: an /api/chat stream emits at most one frame with done = true, nothing
\* after it, and reads no line after the sentinel.
C10_ClosedOnce ==
    IsOllamaStream =>
        /\ Cardinality(DoneFrames) <= 1
        /\ \A i \in DoneFrames : i = Len(frames)
        /\ \A i \in 1..Len(lines) : lines[i] = Sentinel => i = Len(lines)

HasToolCalls(l) == Parsed(l) /\ PyIn("tool_calls", EventDelta(l)) = "True"

\* C11: in an /api/chat stream, the frame of every parsed event whose first
\* choice's delta carries tool_calls has the message {role: "assistant",
\* content: "", tool_calls: <the delta's tool_calls>}, whether or not the delta
\* also carries content.
C11_ToolCallsOverrideContent ==
    IsOllamaStream =>
        LET evs == SelectSeq(lines, Parsed) IN
        \A i \in 1..Len(evs) :
            HasToolCalls(evs[i]) =>
                /\ i <= Len(frames)
                /\ "message" \in DOMAIN frames[i]
                /\ frames[i].message =
                      [role |-> "assistant", content |-> JStr(""),
                       tool_calls |-> EventDelta(evs[i]).f["tool_calls"]]

C11_Witness ==
    /\ IsOllamaStream
    /\ Len(lines) >= 2 /\ lines[1] = EvBoth /\ lines[2] = EvTool
    /\ Len(frames) >= 2
    /\ frames[1].message.tool_calls = ToolCalls
    /\ frames[1].message.content = JStr("")

\* the first choice's message of a complete upstream response, if any
HasFirstMessage(r) ==
    /\ "choices" \in DOMAIN r.f
    /\ Len(r.f["choices"].items) > 0
    /\ "message" \in DOMAIN r.f["choices"].items[1].f
FirstMessage(r) == r.f["choices"].items[1].f["message"].f

\* C13: the non-streaming /api/chat result has done = true and a message with
\* role and content; without choices it is {role: "assistant", content: ""};
\* role is "assistant" when the upstream message has none; tool_calls is
\* present exactly when the first choice's message has it, and is the same.
C13_NonStreamingResult ==
    (endpoint = "ollama" /\ ~stream /\ pc = "returned") =>
        LET r == lines[1] IN
        /\ response.done
        /\ "message" \in DOMAIN response
        /\ {"role", "content"} \subseteq DOMAIN response.message
        /\ ("choices" \notin DOMAIN r.f \/ Len(r.f["choices"].items) = 0)
              => response.message = [role |-> JStr("assistant"), content |-> JStr("")]
        /\ (HasFirstMessage(r) /\ "role" \notin DOMAIN FirstMessage(r))
              => response.message.role = JStr("assistant")
        /\ (HasFirstMessage(r) /\ "role" \in DOMAIN FirstMessage(r))
              => response.message.role = FirstMessage(r).role
        /\ "tool_calls" \in DOMAIN response.message
              <=> (HasFirstMessage(r) /\ "tool_calls" \in DOMAIN FirstMessage(r))
        /\ "tool_calls" \in DOMAIN response.message
              => response.message.tool_calls = FirstMessage(r).tool_calls

C13_Witness ==
    /\ endpoint = "ollama" /\ ~stream /\ pc = "returned"
    /\ lines = <<RespTools>>
    /\ response.message.tool_calls = ToolCalls

\* C16: every frame emitted on an /api/chat stream (increment frames, the
\* sentinel's done frame, the error frame) carries model and created_at.
C16_FramesCarryModelAndTime ==
    IsOllamaStream =>
        \A i \in 1..Len(frames) : {"model", "created_at"} \subseteq DOMAIN frames[i]

\* C17: every frame with done = false emitted on an /api/chat stream carries a
\* message with role "assistant", whatever the parsed event looked like.
C17_IncrementFramesCarryMessage ==
    IsOllamaStream =>
        \A i \in 1..Len(frames) :
            ~frames[i].done =>
                ("message" \in DOMAIN frames[i] /\ frames[i].message.role = "assistant")

\* C18: for every non-empty list of structured messages and every budget, the
\* result of _truncate_messages is non-empty and ends with the input's last
\* message.
C18_KeepsLastMessage ==
    (endpoint = "none" /\ pc = "returned" /\ AllDict(messages) /\ messages # <<>>)
        => (out_messages # <<>> /\ Last(out_messages) = Last(messages))

\* C12: the upstream request built from an /api/chat body has tool_choice
\* exactly when the body has both tools and tool_choice, tools exactly when the
\* body has tools, and max_tokens / temperature from options when present
\* there, 2048 / 0.7 otherwise.
C12_RequestTranslation ==
    pc = "translated" =>
        LET hasOpt(k) == "options" \in DOMAIN data /\ k \in DOMAIN data.options IN
        /\ "tool_choice" \in DOMAIN openai_data
              <=> {"tools", "tool_choice"} \subseteq DOMAIN data
        /\ "tools" \in DOMAIN openai_data <=> "tools" \in DOMAIN data
        /\ "tools" \in DOMAIN data => openai_data.tools = data.tools
        /\ {"tools", "tool_choice"} \subseteq DOMAIN data
              => openai_data.tool_choice = data.tool_choice
        /\ openai_data.max_tokens =
              IF hasOpt("max_tokens") THEN data.options.max_tokens ELSE 2048
        /\ openai_data.temperature =
              IF hasOpt("temperature") THEN data.options.temperature ELSE "0.7"

C12_Witness ==
    /\ pc = "translated"
    /\ DOMAIN data = {"tool_choice", "options"}
    /\ DOMAIN data.options = {"temperature"}
    /\ "tool_choice" \notin DOMAIN openai_data
    /\ openai_data.max_tokens = 2048
    /\ openai_data.temperature = data.options.temperature

Disconnected ==
    pc \in {"abandoned", "cancelled"} \/ exc.type \in {"CancelledError", "GeneratorExit"}

UpstreamFailed ==
    \/ exc.type \in {"connect_error", "http_error", "connect", "read", "close"}
    \/ upStatus >= 400

\* the caller was told: a failing status, an error frame, or (native stream)
\* the upstream's own body passed through
FailureSurfaced ==
    \/ respStatus >= 400
    \/ ErrorFrames # {}
    \/ (endpoint = "openai" /\ stream /\ frames # <<>>)

AtMostOneCall == Len(sent) <= 1

\* C15: every inbound chat request issues at most one upstream call, and once
\* the handling has ended after an upstream failure, the failure was surfaced
\* and no second call was made.
C15_NoRetryFailureSurfaced ==
    /\ AtMostOneCall
    /\ (pc \in {"finished", "returned", "raised"} /\ UpstreamFailed) => FailureSurfaced

\* the frames a request's own upstream events and own failure give rise to
OwnFrames(q) ==
    FramesOf(q.lines) \o (IF q.exc.type = "none" THEN <<>> ELSE <<ErrorFrame(q.exc)>>)

\* the upstream calls a request's own body gives rise to
OwnSent(q) ==
    IF q.pc = "gen_start" THEN <<>>
    ELSE <<_truncate_messages(q.messages, DefaultMaxChars)>>

\* C19: with several streaming requests in flight and their steps interleaved
\* in any order, the frames and the upstream message list of each request are
\* determined by that request's own body, own upstream lines and own failure;
\* nothing of another request appears in them.
C19_RequestsIsolated ==
    \A r \in DOMAIN reqs :
        /\ reqs[r].frames = OwnFrames(reqs[r])
        /\ reqs[r].sent = OwnSent(reqs[r])

C19_Witness ==
    /\ pc = "concurrent"
    /\ reqs[1].pc = "reading" /\ reqs[1].lines = <<EvHello>> /\ Len(reqs[1].frames) = 1
    /\ reqs[2].pc = "finished" /\ reqs[2].exc.type = "read"
    /\ reqs[2].lines = <<EvWorld>> /\ Len(reqs[2].frames) = 2
    /\ reqs[1].sent # reqs[2].sent

====
